---- MODULE Spec2Model ----
(***************************************************************************)
(* A model of agent.py: the plan compiler mock_llm_reason and the agent    *)
(* GenericUIAgent (__init__, execute).                                     *)
(*                                                                         *)
(* Python strings are sequences of one-character strings, so that          *)
(* str.lower(), re.match and the `in` operator are computed and not        *)
(* assumed.  Exceptions are named by a string: their type, and for the two *)
(* ValueErrors of the module also their message.                           *)
(***************************************************************************)
EXTENDS Integers, Sequences, FiniteSets, TLC

(***************************************************************************)
(* Bounds.                                                                 *)
(***************************************************************************)
\* the number of execute() calls made on one agent
MaxRuns == 2

\* the number of direct calls of mock_llm_reason
MaxCalls == 2

(***************************************************************************)
(* Characters and str.lower().                                             *)
(***************************************************************************)
UPPER == <<"A", "B", "C", "D", "E", "F", "G", "H", "I", "J", "K", "L", "M",
           "N", "O", "P", "Q", "R", "S", "T", "U", "V", "W", "X", "Y", "Z">>

LOWER == <<"a", "b", "c", "d", "e", "f", "g", "h", "i", "j", "k", "l", "m",
           "n", "o", "p", "q", "r", "s", "t", "u", "v", "w", "x", "y", "z">>

DIGITS == <<"0", "1", "2", "3", "4", "5", "6", "7", "8", "9">>

Range(s) == {s[i] : i \in DOMAIN s}

LowerChar(c) ==
    IF c \in Range(UPPER)
    THEN LOWER[CHOOSE i \in DOMAIN UPPER : UPPER[i] = c]
    ELSE c

\* str.lower()
Lower(s) == [i \in DOMAIN s |-> LowerChar(s[i])]

\* needle in haystack, for two strings
Contains(haystack, needle) ==
    \E i \in 1..(Len(haystack) + 1) :
        /\ i + Len(needle) - 1 <= Len(haystack)
        /\ \A k \in DOMAIN needle : haystack[i + k - 1] = needle[k]

\* The instruction pattern of mock_llm_reason,
\*     send email to ([\w\.-]+@[\w\.-]+) about (.*) saying '(.+)'
\* matched by re.match: anchored at the start of the text, not at its end.
LIT1 == <<"s", "e", "n", "d", " ", "e", "m", "a", "i", "l", " ", "t", "o", " ">>

LIT2 == <<" ", "a", "b", "o", "u", "t", " ">>

LIT3 == <<" ", "s", "a", "y", "i", "n", "g", " ", "'">>

QUOTE == "'"

\* the class [\w\.-]
IsAddrChar(c) ==
    c \in Range(UPPER) \cup Range(LOWER) \cup Range(DIGITS) \cup {"_", ".", "-"}

\* the class . (anything but a newline)
IsDot(c) == c # "\n"

\* the literal lit occurs in s at position i
HasAt(s, i, lit) ==
    /\ i >= 1
    /\ i + Len(lit) - 1 <= Len(s)
    /\ \A k \in DOMAIN lit : s[i + k - 1] = lit[k]

\* the last position of the longest run of [\w\.-] that starts at i
\* (i - 1 when s[i] is not in the class)
RunEnd(s, i) ==
    LET stops == {j \in i..Len(s) : ~ IsAddrChar(s[j])}
    IN  IF stops = {} THEN Len(s)
        ELSE (CHOOSE j \in stops : \A j2 \in stops : j <= j2) - 1

AllDot(s, from, to) == \A k \in from..to : IsDot(s[k])

NoMatch == [matched |-> FALSE, span |-> <<>>, groups |-> <<>>]

\* the largest member of a non-empty set of positions
Last(S) == CHOOSE n \in S : \A m \in S : m <= n

\* the positions from b on where " saying '" occurs, all of group 2 before it
\* being matched by .
SayingAt(s, b) ==
    {k \in b..Len(s) : HasAt(s, k, LIT3) /\ AllDot(s, b, k - 1)}

\* the closing quotes that can end group 3 when " saying '" is at k: at least
\* one character lies between, and all of them are matched by .
ClosingAt(s, k) ==
    {j \in (k + Len(LIT3) + 1)..Len(s) :
        s[j] = QUOTE /\ AllDot(s, k + Len(LIT3), j - 1)}

\* re.match(pattern, s): the groups of the greedy, backtracking match, and
\* span[g] = <<first, last>>, the positions of group g in s
ReMatch(s) ==
    LET a  == Len(LIT1) + 1
        e1 == RunEnd(s, a)
        d  == e1 + 2
        e2 == RunEnd(s, d)
        b  == e2 + 1 + Len(LIT2)
        ks == {k1 \in SayingAt(s, b) : ClosingAt(s, k1) # {}}
        \* group 2 is greedy: the last " saying '" that a quote can follow
        k  == Last(ks)
        \* group 3 is greedy: the last quote
        j  == Last(ClosingAt(s, k))
    IN  IF /\ HasAt(s, 1, LIT1)
           /\ e1 >= a
           /\ e1 < Len(s)
           /\ s[e1 + 1] = "@"
           /\ e2 >= d
           /\ HasAt(s, e2 + 1, LIT2)
           /\ ks # {}
        THEN [matched |-> TRUE,
              span    |-> << <<a, e2>>, <<b, k - 1>>, <<k + Len(LIT3), j - 1>> >>,
              groups  |-> << SubSeq(s, a, e2), SubSeq(s, b, k - 1),
                             SubSeq(s, k + Len(LIT3), j - 1) >>]
        ELSE NoMatch

(***************************************************************************)
(* mock_llm_reason(instruction, html_content, provider).                   *)
(***************************************************************************)
InvalidInstruction == "ValueError: Invalid instruction format"

UnsupportedProvider == "ValueError: Unsupported provider"

KeyError == "KeyError"

\* the keys of a provider's label mapping
k_compose_button == <<"c", "o", "m", "p", "o", "s", "e", "_", "b", "u", "t", "t", "o", "n">>

k_to_label == <<"t", "o", "_", "l", "a", "b", "e", "l">>

k_subject_label == <<"s", "u", "b", "j", "e", "c", "t", "_", "l", "a", "b", "e", "l">>

k_body_label == <<"b", "o", "d", "y", "_", "l", "a", "b", "e", "l">>

k_send_button == <<"s", "e", "n", "d", "_", "b", "u", "t", "t", "o", "n">>

GmailLabels ==
    k_compose_button :> <<"C", "o", "m", "p", "o", "s", "e">>
    @@ k_to_label :> <<"T", "o">>
    @@ k_subject_label :> <<"S", "u", "b", "j", "e", "c", "t">>
    @@ k_body_label :> <<"M", "e", "s", "s", "a", "g", "e", " ", "B", "o", "d", "y">>
    @@ k_send_button :> <<"S", "e", "n", "d">>

OutlookLabels ==
    k_compose_button :> <<"N", "e", "w", " ", "m", "e", "s", "s", "a", "g", "e">>
    @@ k_to_label :> <<"T", "o">>
    @@ k_subject_label :> <<"A", "d", "d", " ", "a", " ", "s", "u", "b", "j", "e", "c", "t">>
    @@ k_body_label :> <<"M", "e", "s", "s", "a", "g", "e", " ", "b", "o", "d", "y">>
    @@ k_send_button :> <<"S", "e", "n", "d">>

\* a label table that lacks a provider of the URL table
LabelTableGmailOnly == [gmail |-> GmailLabels]

\* the dict literal of the label mappings
LabelTable == [gmail |-> GmailLabels, outlook |-> OutlookLabels]

\* {...}.get(provider, {}): the empty dict is the function of empty domain
Labels(provider) ==
    IF provider \in DOMAIN LabelTable THEN LabelTable[provider] ELSE <<>>

ClickButton(name) ==
    [action |-> "click_button", params |-> [name |-> name, role |-> "button"]]

FillInput(label, value) ==
    [action |-> "fill_input", params |-> [label |-> label, value |-> value]]

\* the list of abstract steps
Steps(labels, to_email, subject, body) ==
    << ClickButton(labels[k_compose_button]),
       FillInput(labels[k_to_label], to_email),
       FillInput(labels[k_subject_label], subject),
       FillInput(labels[k_body_label], body),
       ClickButton(labels[k_send_button]) >>

\* the key that the label check looks up in the label mapping for a step
CheckKey(step) == Lower(step.params.label)

\* the label check of one step: "skip" (the step has no label), "KeyError"
\* (the subscript labels[...] fails), "warning" or "ok"
CheckStep(step, labels, html_content) ==
    IF "label" \notin DOMAIN step.params THEN "skip"
    ELSE IF CheckKey(step) \notin DOMAIN labels THEN KeyError
    ELSE IF ~ Contains(Lower(html_content), labels[CheckKey(step)]) THEN "warning"
    ELSE "ok"

\* the loop over the steps: it ends at the first step whose check raises
LabelCheck(steps, labels, html_content) ==
    IF \E i \in DOMAIN steps : CheckStep(steps[i], labels, html_content) = KeyError
    THEN KeyError
    ELSE "done"

Raise(e) == [kind |-> "raise", exc |-> e, steps |-> <<>>]

Return(steps) == [kind |-> "return", exc |-> "None", steps |-> steps]

\* re.match(pattern, instruction.lower())
Match(instruction) == ReMatch(Lower(instruction))

\* to_email, subject, body = match.groups(): <<>> while they are unassigned
Groups(instruction) ==
    IF Match(instruction).matched THEN Match(instruction).groups ELSE <<>>

MockLlmReason(instruction, html_content, provider) ==
    LET match  == Match(instruction)
        labels == Labels(provider)
        steps  == Steps(labels, match.groups[1], match.groups[2], match.groups[3])
    IN  IF ~ match.matched THEN Raise(InvalidInstruction)
        ELSE IF DOMAIN labels = {} THEN Raise(UnsupportedProvider)
        ELSE IF LabelCheck(steps, labels, html_content) = KeyError THEN Raise(KeyError)
        ELSE Return(steps)

(***************************************************************************)
(* The inputs: instructions assembled from parts, HTML snapshots and       *)
(* provider identifiers.                                                   *)
(***************************************************************************)
Directives ==
    { <<"s", "e", "n", "d", " ", "e", "m", "a", "i", "l", " ", "t", "o", " ">>,
      <<"S", "e", "n", "d", " ", "E", "m", "a", "i", "l", " ", "T", "o", " ">>,
      <<"s", "e", "n", "d", " ", "m", "a", "i", "l", " ", "t", "o", " ">> }

Addresses ==
    { <<"J", "o", "e", "@", "X", ".", "i", "o">>,
      <<"j", "o", "e", ".", "x", ".", "i", "o">> }

Subjects == { <<"H", "i">> }

Sayings ==
    { <<" ", "s", "a", "y", "i", "n", "g", " ", "'">>,
      <<" ", "s", "a", "y", "i", "n", "g", " ">>,
      <<" ">> }

Bodies == { <<"Y", "o">>, <<"i", "t", "'", "s">>, <<>> }

Closers == { <<"'">>, <<>> }

Trailers == { <<>>, <<" ", "p", "s">> }

Instructions ==
    { d \o a \o LIT2 \o s \o y \o b \o c \o t :
        d \in Directives, a \in Addresses, s \in Subjects, y \in Sayings,
        b \in Bodies, c \in Closers, t \in Trailers }

Htmls ==
    { <<"<", "p", ">", "T", "o", " ", "S", "u", "b", "j", "e", "c", "t", " ",
        "M", "e", "s", "s", "a", "g", "e", " ", "B", "o", "d", "y", "<", "/", "p", ">">>,
      <<"<", "p", ">", "i", "n", "b", "o", "x", "<", "/", "p", ">">> }

ProviderIds == {"gmail", "outlook", "yahoo"}

(***************************************************************************)
(* The state of one agent and of its execute() call.                       *)
(***************************************************************************)
VARIABLES
    provider,     \* the provider identifier given to GenericUIAgent()
    instruction,  \* the instruction given to execute() and mock_llm_reason()
    pc,           \* the statement the program is at
    url,          \* self.url
    page,         \* self.page: "None", or the number of the run that opened it
    browser,      \* the browser of the run: "None", "open" or "closed"
    html,         \* the local html of execute
    steps,        \* the local steps of execute
    idx,          \* the position in steps of the action the loop is at
    log,          \* the session operations of the run, in invocation order
    calling,      \* TRUE while the session operation at pc is in progress
    exc,          \* the exception being handled or propagated, or "None"
    status,       \* "none", "running", "completed" or "raised"
    runs,         \* the number of execute() calls started
    ret,          \* the result of the last direct call of mock_llm_reason
    fields,       \* to_email, subject, body of the last mock_llm_reason call
    shots,        \* the files written by page.screenshot: path |-> what it shows
    calls,        \* the direct calls of mock_llm_reason: how many, and the last
    locator       \* <<the page that execute's local locator was resolved on>>

vars == <<provider, instruction, pc, url, page, browser, html, steps, idx,
          log, calling, exc, status, runs, ret, fields, shots, calls, locator>>

TimeoutError == "TimeoutError"

\* any other playwright error
Error == "Error"

NotCalled == [kind |-> "none", exc |-> "None", steps |-> <<>>]

\* no direct call yet; after a call: their number and the number of
\* execute() calls started before the last one
NoCalls == [n |-> 0, after |-> 0]

\* a URL table that has grown an entry the label mappings lack
UrlsWithYahoo ==
    [gmail |-> "https://mail.google.com",
     outlook |-> "https://outlook.live.com/mail/",
     yahoo |-> "https://mail.yahoo.com"]

\* the dict literal of GenericUIAgent.__init__
Urls == [gmail |-> "https://mail.google.com",
         outlook |-> "https://outlook.live.com/mail/"]

\* {...}.get(provider)
UrlOf(p) == IF p \in DOMAIN Urls THEN Urls[p] ELSE "None"

\* the statements of execute that call into the session
SessionPcs ==
    {"launch", "new_page", "goto", "wait_for_load_state", "content",
     "get_by_role", "get_by_label", "wait_for", "click", "fill",
     "wait_for_timeout", "screenshot", "close"}

\* a visibility wait without a timeout, on an element that never shows: the
\* call does not return
OutcomesNoTimeout(op) ==
    CASE op \in {"launch"} -> {"ok", Error}
      [] op \in {"goto", "click", "fill"} -> {"ok", TimeoutError, Error}
      [] op \in {"wait_for_load_state"} -> {"ok", TimeoutError}
      [] op \in {"wait_for"} -> {}
      [] op \in {"screenshot"} -> {"ok", Error}
      [] OTHER -> {"ok"}

\* what a session operation can answer: "ok", or the exception it raises.
\* Failures are those of launching and loading the page, of the visibility
\* wait, of click and fill, and of the screenshot.
Outcomes(op) ==
    CASE op \in {"launch"} -> {"ok", Error}
      [] op \in {"goto", "click", "fill"} -> {"ok", TimeoutError, Error}
      [] op \in {"wait_for_load_state", "wait_for"} -> {"ok", TimeoutError}
      [] op \in {"screenshot"} -> {"ok", Error}
      [] OTHER -> {"ok"}

\* a call that is not waited for: it stays in progress
ReturnedAsync(l, out) == l

\* the synchronous API: the call at the end of the log has returned out
Returned(l, out) == [l EXCEPT ![Len(l)].out = out]

\* a loop body that acts at once, with no locator wait before
BodyPcNoWait(step) ==
    IF step.action = "click_button" THEN "click"
    ELSE IF step.action = "fill_input" THEN "fill"
    ELSE "wait_for_timeout"

\* the first statement of the loop body for a step
BodyPc(step) ==
    IF step.action = "click_button" THEN "get_by_role"
    ELSE IF step.action = "fill_input" THEN "get_by_label"
    ELSE "wait_for_timeout"

\* the for statement: the body of the step at position i, or the statement
\* after the loop
ForPc(stps, i) ==
    IF i <= Len(stps) THEN BodyPc(stps[i]) ELSE "log_completed"

\* the files after one is written at path: a file already there is replaced
Written(files, path, shown) ==
    [q \in DOMAIN files \cup {path} |-> IF q = path THEN shown ELSE files[q]]

\* f"error_{self.provider}.png"
ShotPath(p) == <<"error_", p, ".png">>

\* an except clause that ends in continue instead of raise
AfterScreenshotContinue == "wait_for_timeout"

\* the statement that follows the screenshot of the except clause: raise
\* leaves the loop and the with block
AfterScreenshot == "exit_with"

\* an except clause that tries the click or fill again after an error
ExceptPcRetry(e) ==
    IF e = TimeoutError THEN "screenshot"
    ELSE IF steps[idx].action = "click_button" THEN "click" ELSE "fill"

\* an except clause that swallows every other exception and goes on
ExceptPcSwallow(e) ==
    IF e = TimeoutError THEN "screenshot" ELSE "wait_for_timeout"

\* except TimeoutError: where an exception raised in the try block goes
ExceptPc(e) == IF e = TimeoutError THEN "screenshot" ELSE "exit_with"

Init ==
    /\ provider \in ProviderIds
    /\ instruction \in Instructions
    /\ pc = "start"
    /\ url = "None"
    /\ page = "None"
    /\ browser = "None"
    /\ html = <<>>
    /\ steps = <<>>
    /\ idx = 0
    /\ log = <<>>
    /\ calling = FALSE
    /\ exc = "None"
    /\ status = "none"
    /\ runs = 0
    /\ ret = NotCalled
    /\ fields = <<>>
    /\ shots = <<>>
    /\ calls = NoCalls
    /\ locator = <<>>

\* a call whose label table the first run of execute has emptied
CallResultAfterRun(h) ==
    MockLlmReason(instruction, h, IF runs = 0 THEN provider ELSE "none")

\* what mock_llm_reason(instruction, h, provider) returns or raises: a
\* function of its three arguments
CallResult(h) == MockLlmReason(instruction, h, provider)

\* mock_llm_reason(instruction, html, provider), called on its own
DirectCall ==
    /\ pc \in {"start", "ctor_raised", "idle"}
    /\ calls.n < MaxCalls
    /\ \E h \in Htmls :
        /\ ret' = CallResult(h)
        /\ calls' = [n |-> calls.n + 1, after |-> runs]
    /\ fields' = Groups(instruction)
    /\ UNCHANGED <<provider, instruction, pc, url, page, browser, html, steps,
                   idx, log, calling, exc, status, runs, shots, locator>>

\* GenericUIAgent(provider)
AgentInit ==
    /\ pc = "start"
    /\ url' = UrlOf(provider)
    /\ IF UrlOf(provider) = "None"
       THEN /\ pc' = "ctor_raised"
            /\ exc' = UnsupportedProvider
       ELSE /\ pc' = "idle"
            /\ exc' = "None"
    /\ page' = "None"
    /\ UNCHANGED <<provider, instruction, browser, html, steps, idx, log,
                   calling, status, runs, ret, fields, shots, calls, locator>>

\* agent.execute(instruction): entering the with block
Execute ==
    /\ pc = "idle"
    /\ runs < MaxRuns
    /\ runs' = runs + 1
    /\ pc' = "launch"
    /\ browser' = "None"
    /\ html' = <<>>
    /\ steps' = <<>>
    /\ idx' = 0
    /\ log' = <<>>
    /\ exc' = "None"
    /\ status' = "running"
    /\ locator' = <<>>
    /\ UNCHANGED <<provider, instruction, url, page, calling, ret, fields,
                   shots, calls>>

\* what the session operation op is called with, as a tuple of strings
ArgOf(op) ==
    CASE op = "goto" -> <<url>>
      [] op = "get_by_role" -> steps[idx].params.name
      [] op = "get_by_label" -> steps[idx].params.label
      [] op = "fill" -> steps[idx].params.value
      [] op = "screenshot" -> ShotPath(provider)
      [] OTHER -> <<>>

\* the object the session operation op is called on: the playwright and
\* browser objects of the with block, the locator, or whatever self.page is
\* at the time of the call
TargetOf(op) ==
    CASE op \in {"launch", "new_page", "close"} -> <<>>
      [] op \in {"wait_for", "click", "fill"} -> locator
      [] OTHER -> <<page>>

\* the call of the session operation at pc
Invoke ==
    /\ pc \in SessionPcs
    /\ ~ calling
    /\ calling' = TRUE
    /\ log' = Append(log, [op |-> pc, idx |-> idx, arg |-> ArgOf(pc),
                            on |-> TargetOf(pc), out |-> "pending"])
    /\ UNCHANGED <<provider, instruction, pc, url, page, browser, html, steps,
                   idx, exc, status, runs, ret, fields, shots, calls, locator>>

\* p.chromium.launch(headless=False)
Launch ==
    /\ pc = "launch" /\ calling
    /\ \E out \in Outcomes("launch") :
        /\ log' = Returned(log, out)
        /\ IF out = "ok"
           THEN pc' = "new_page" /\ browser' = "open" /\ exc' = exc
           ELSE pc' = "exit_with" /\ browser' = browser /\ exc' = out
    /\ calling' = FALSE
    /\ UNCHANGED <<provider, instruction, url, page, html, steps, idx, status,
                   runs, ret, fields, shots, calls, locator>>

\* self.page = browser.new_page()
NewPage ==
    /\ pc = "new_page" /\ calling
    /\ \E out \in Outcomes("new_page") : log' = Returned(log, out)
    /\ page' = runs
    /\ pc' = "goto"
    /\ calling' = FALSE
    /\ UNCHANGED <<provider, instruction, url, browser, html, steps, idx, exc,
                   status, runs, ret, fields, shots, calls, locator>>

\* self.page.goto(self.url)
Goto ==
    /\ pc = "goto" /\ calling
    /\ \E out \in Outcomes("goto") :
        /\ log' = Returned(log, out)
        /\ IF out = "ok"
           THEN pc' = "wait_for_load_state" /\ exc' = exc
           ELSE pc' = "exit_with" /\ exc' = out
    /\ calling' = FALSE
    /\ UNCHANGED <<provider, instruction, url, page, browser, html, steps, idx,
                   status, runs, ret, fields, shots, calls, locator>>

\* self.page.wait_for_load_state("networkidle")
WaitForLoadState ==
    /\ pc = "wait_for_load_state" /\ calling
    /\ \E out \in Outcomes("wait_for_load_state") :
        /\ log' = Returned(log, out)
        /\ IF out = "ok"
           THEN pc' = "content" /\ exc' = exc
           ELSE pc' = "exit_with" /\ exc' = out
    /\ calling' = FALSE
    /\ UNCHANGED <<provider, instruction, url, page, browser, html, steps, idx,
                   status, runs, ret, fields, shots, calls, locator>>

\* html = self.page.content().lower()
Content ==
    /\ pc = "content" /\ calling
    /\ \E out \in Outcomes("content") : log' = Returned(log, out)
    /\ \E h \in Htmls : html' = Lower(h)
    /\ pc' = "mock_llm_reason"
    /\ calling' = FALSE
    /\ UNCHANGED <<provider, instruction, url, page, browser, steps, idx, exc,
                   status, runs, ret, fields, shots, calls, locator>>

\* steps = mock_llm_reason(instruction, html, self.provider), and the for
\* statement when it returns
Reason ==
    /\ pc = "mock_llm_reason"
    /\ LET r == MockLlmReason(instruction, html, provider)
       IN  IF r.kind = "raise"
           THEN /\ exc' = r.exc
                /\ pc' = "exit_with"
                /\ UNCHANGED <<steps, idx>>
           ELSE /\ steps' = r.steps
                /\ idx' = 1
                /\ pc' = ForPc(r.steps, 1)
                /\ exc' = exc
    /\ fields' = Groups(instruction)
    /\ UNCHANGED <<provider, instruction, url, page, browser, html, log,
                   calling, status, runs, ret, shots, calls, locator>>

\* locator = self.page.get_by_role(params["role"], name=params["name"], exact=False)
GetByRole ==
    /\ pc = "get_by_role" /\ calling
    /\ \E out \in Outcomes("get_by_role") : log' = Returned(log, out)
    /\ locator' = <<page>>
    /\ pc' = "wait_for"
    /\ calling' = FALSE
    /\ UNCHANGED <<provider, instruction, url, page, browser, html, steps, idx,
                   exc, status, runs, ret, fields, shots, calls>>

\* locator = self.page.get_by_label(params["label"], exact=False)
GetByLabel ==
    /\ pc = "get_by_label" /\ calling
    /\ \E out \in Outcomes("get_by_label") : log' = Returned(log, out)
    /\ locator' = <<page>>
    /\ pc' = "wait_for"
    /\ calling' = FALSE
    /\ UNCHANGED <<provider, instruction, url, page, browser, html, steps, idx,
                   exc, status, runs, ret, fields, shots, calls>>

\* locator.wait_for(state="visible", timeout=5000)
WaitFor ==
    /\ pc = "wait_for" /\ calling
    /\ \E out \in Outcomes("wait_for") :
        /\ log' = Returned(log, out)
        /\ IF out = "ok"
           THEN /\ pc' = IF steps[idx].action = "click_button"
                         THEN "click" ELSE "fill"
                /\ exc' = exc
           ELSE /\ pc' = ExceptPc(out)
                /\ exc' = out
    /\ calling' = FALSE
    /\ UNCHANGED <<provider, instruction, url, page, browser, html, steps, idx,
                   status, runs, ret, fields, shots, calls, locator>>

\* locator.click()
Click ==
    /\ pc = "click" /\ calling
    /\ \E out \in Outcomes("click") :
        /\ log' = Returned(log, out)
        /\ IF out = "ok"
           THEN pc' = "wait_for_timeout" /\ exc' = exc
           ELSE pc' = ExceptPc(out) /\ exc' = out
    /\ calling' = FALSE
    /\ UNCHANGED <<provider, instruction, url, page, browser, html, steps, idx,
                   status, runs, ret, fields, shots, calls, locator>>

\* locator.fill(params["value"])
Fill ==
    /\ pc = "fill" /\ calling
    /\ \E out \in Outcomes("fill") :
        /\ log' = Returned(log, out)
        /\ IF out = "ok"
           THEN pc' = "wait_for_timeout" /\ exc' = exc
           ELSE pc' = ExceptPc(out) /\ exc' = out
    /\ calling' = FALSE
    /\ UNCHANGED <<provider, instruction, url, page, browser, html, steps, idx,
                   status, runs, ret, fields, shots, calls, locator>>

\* self.page.wait_for_timeout(2000), and the for statement after it
WaitForTimeout ==
    /\ pc = "wait_for_timeout" /\ calling
    /\ \E out \in Outcomes("wait_for_timeout") : log' = Returned(log, out)
    /\ idx' = idx + 1
    /\ pc' = ForPc(steps, idx + 1)
    /\ calling' = FALSE
    /\ UNCHANGED <<provider, instruction, url, page, browser, html, steps, exc,
                   status, runs, ret, fields, shots, calls, locator>>

\* except TimeoutError: self.page.screenshot(path=...), then raise; an error
\* of the screenshot takes the place of the exception being handled
Screenshot ==
    /\ pc = "screenshot" /\ calling
    /\ \E out \in Outcomes("screenshot") :
        /\ log' = Returned(log, out)
        /\ IF out = "ok"
           THEN /\ shots' = Written(shots, ShotPath(provider),
                                     [run |-> runs, idx |-> idx])
                /\ pc' = AfterScreenshot
                /\ exc' = exc
           ELSE /\ shots' = shots
                /\ pc' = "exit_with"
                /\ exc' = out
    /\ calling' = FALSE
    /\ UNCHANGED <<provider, instruction, url, page, browser, html, steps, idx,
                   status, runs, ret, fields, calls, locator>>

\* logging.info("Task completed successfully")
LogCompleted ==
    /\ pc = "log_completed"
    /\ status' = "completed"
    /\ pc' = "close"
    /\ UNCHANGED <<provider, instruction, url, page, browser, html, steps, idx,
                   log, calling, exc, runs, ret, fields, shots, calls, locator>>

\* browser.close()
Close ==
    /\ pc = "close" /\ calling
    /\ \E out \in Outcomes("close") : log' = Returned(log, out)
    /\ browser' = "closed"
    /\ pc' = "exit_with"
    /\ calling' = FALSE
    /\ UNCHANGED <<provider, instruction, url, page, html, steps, idx, exc,
                   status, runs, ret, fields, shots, calls, locator>>

\* playwright started by hand and never stopped: the browser stays as it is
StoppedLeak(b) == b

\* sync_playwright().__exit__: stopping playwright ends a browser that is
\* still open
Stopped(b) == IF b = "open" THEN "closed" ELSE b

\* leaving the with block of sync_playwright: playwright is stopped, which
\* ends the browser, and a pending exception goes on to the caller
ExitWith ==
    /\ pc = "exit_with"
    /\ browser' = Stopped(browser)
    /\ status' = IF exc = "None" THEN status ELSE "raised"
    /\ pc' = "idle"
    /\ UNCHANGED <<provider, instruction, url, page, html, steps, idx, log,
                   calling, exc, runs, ret, fields, shots, calls, locator>>

Next ==
    \/ DirectCall
    \/ AgentInit
    \/ Execute
    \/ Invoke
    \/ Launch
    \/ NewPage
    \/ Goto
    \/ WaitForLoadState
    \/ Content
    \/ Reason
    \/ ExitWith

Spec == Init /\ [][Next]_vars

\* the session operations of execute before the loop, all answered "ok"
PreLoopLog(u, pg) ==
    [k \in 1..5 |->
        [op  |-> <<"launch", "new_page", "goto", "wait_for_load_state",
                   "content">>[k],
         idx |-> 0,
         arg |-> IF k = 3 THEN <<u>> ELSE <<>>,
         on  |-> IF k <= 2 THEN <<>> ELSE <<pg>>,
         out |-> "ok"]]

\* execute at its for statement, with the steps list that mock_llm_reason
\* builds for a supported provider and a matching instruction.  Under Spec
\* the call of mock_llm_reason in execute always raises (the label check
\* fails), so the loop is studied from here, as execute runs it on that list.
InitExec ==
    /\ provider \in DOMAIN LabelTable \cap DOMAIN Urls
    /\ instruction \in {i \in Instructions : Match(i).matched}
    /\ url = UrlOf(provider)
    /\ page = 1
    /\ browser = "open"
    /\ \E h \in Htmls : html = Lower(h)
    /\ fields = Groups(instruction)
    /\ steps = Steps(Labels(provider), fields[1], fields[2], fields[3])
    /\ idx = 1
    /\ pc = ForPc(steps, 1)
    /\ log = PreLoopLog(url, page)
    /\ calling = FALSE
    /\ exc = "None"
    /\ status = "running"
    /\ runs = 1
    /\ ret = NotCalled
    /\ shots = <<>>
    /\ calls = NoCalls
    /\ locator = <<>>

NextExec ==
    \/ Invoke
    \/ GetByRole
    \/ GetByLabel
    \/ WaitFor
    \/ Click
    \/ Fill
    \/ WaitForTimeout
    \/ Screenshot
    \/ LogCompleted
    \/ Close
    \/ ExitWith

\* the loop of execute, entered with the steps of mock_llm_reason
SpecExec == InitExec /\ [][NextExec]_vars

\* the loop under its scheduling: the one thread of execute goes on to its
\* next statement, and every session call returns, its wait being bounded
\* by a timeout
LiveExec == SpecExec /\ WF_vars(NextExec)

\* execute called once more on the agent, up to its for statement
ExecuteAgain ==
    /\ pc = "idle"
    /\ runs < MaxRuns
    /\ runs' = runs + 1
    /\ page' = runs + 1
    /\ browser' = "open"
    /\ idx' = 1
    /\ pc' = ForPc(steps, 1)
    /\ log' = PreLoopLog(url, runs + 1)
    /\ exc' = "None"
    /\ status' = "running"
    /\ locator' = <<>>
    /\ UNCHANGED <<provider, instruction, url, html, steps, calling, ret,
                   fields, shots, calls>>

NextRetry == NextExec \/ ExecuteAgain

\* the loop of execute, run again by a caller that calls execute again
SpecRetry == InitExec /\ [][NextRetry]_vars

\* the page of another execute call in flight on the same agent: none of
\* the pages that the runs of this model open
OtherPage == runs + MaxRuns

\* self.page = browser.new_page() of another execute call on the same agent,
\* made from a second thread while this run is in its loop: self.page is an
\* attribute of the agent, so the assignment is seen by this run
OtherNewPage ==
    /\ status = "running"
    /\ page = runs
    /\ page' = OtherPage
    /\ UNCHANGED <<provider, instruction, pc, url, browser, html, steps, idx,
                   log, calling, exc, status, runs, ret, fields, shots, calls,
                   locator>>

NextOverlap == NextExec \/ OtherNewPage

\* the loop of execute while another execute call on the same agent opens
\* its page
SpecOverlap == InitExec /\ [][NextOverlap]_vars

InitAll == Init \/ InitExec

\* the constructor and every statement of execute; mock_llm_reason is
\* called by execute only
NextAll ==
    \/ AgentInit
    \/ Execute
    \/ Launch
    \/ NewPage
    \/ Goto
    \/ WaitForLoadState
    \/ Content
    \/ Reason
    \/ NextExec

\* every path through execute: the whole program, and the loop
SpecAll == InitAll /\ [][NextAll]_vars

(***************************************************************************)
(* The claims.                                                             *)
(***************************************************************************)
\* the supported providers
ConfiguredProviders == {"gmail", "outlook"}

\* the instruction matches the pattern from its first to its last character
FullMatch(i) == Match(i).matched /\ Match(i).span[3][2] = Len(i) - 1

\* the groups of the match, cut out of the instruction text as it was given
Verbatim(i) ==
    [g \in 1..3 |-> SubSeq(i, Match(i).span[g][1], Match(i).span[g][2])]

ValidInputs == provider \in ConfiguredProviders /\ FullMatch(instruction)

\* the session operations of the loop so far
LoopLog == SubSeq(log, Len(PreLoopLog(url, page)) + 1, Len(log))

IsClick(i) == steps[i].action = "click_button"

\* the n-th session operation of a loop in which no operation fails
ExpectedOp(n) ==
    LET i == ((n - 1) \div 4) + 1
        r == (n - 1) % 4
    IN  [op  |-> CASE r = 0 -> IF IsClick(i) THEN "get_by_role" ELSE "get_by_label"
                   [] r = 1 -> "wait_for"
                   [] r = 2 -> IF IsClick(i) THEN "click" ELSE "fill"
                   [] r = 3 -> "wait_for_timeout",
         idx |-> i,
         arg |-> CASE r = 0 -> IF IsClick(i) THEN steps[i].params.name
                                             ELSE steps[i].params.label
                   [] r = 2 -> IF IsClick(i) THEN <<>> ELSE steps[i].params.value
                   [] OTHER -> <<>>]

SameCall(e, x) == e.op = x.op /\ e.idx = x.idx /\ e.arg = x.arg

\* the log entries of a wait, click or fill that failed
Failures ==
    {k \in DOMAIN log : /\ log[k].op \in {"wait_for", "click", "fill"}
                        /\ log[k].out \notin {"ok", "pending"}}

\* C1: for a supported provider, a matching instruction and any HTML
\* snapshot, mock_llm_reason returns the five actions click(compose),
\* fill(to), fill(subject), fill(body), click(send), the fills carrying the
\* parsed fields and the selectors the provider's labels.
Orig_C1 ==
    (ret.kind # "none" /\ ValidInputs) =>
        /\ ret.kind = "return"
        /\ Len(ret.steps) = 5
        /\ [k \in 1..5 |-> ret.steps[k].action]
             = <<"click_button", "fill_input", "fill_input", "fill_input",
                 "click_button">>
        /\ ret.steps[1].params.name = LabelTable[provider][k_compose_button]
        /\ ret.steps[2].params.label = LabelTable[provider][k_to_label]
        /\ ret.steps[3].params.label = LabelTable[provider][k_subject_label]
        /\ ret.steps[4].params.label = LabelTable[provider][k_body_label]
        /\ ret.steps[5].params.name = LabelTable[provider][k_send_button]
        /\ [k \in 1..3 |-> ret.steps[k + 1].params.value] = fields

\* C2: with a supported provider and a matching instruction the label check
\* of mock_llm_reason raises nothing, whatever the HTML snapshot: neither a
\* direct call nor the call made by execute ends in an exception.
Orig_C2 ==
    ValidInputs =>
        /\ ret.kind # "raise"
        /\ exc \notin {KeyError, InvalidInstruction, UnsupportedProvider}

\* C3: a run of execute for a supported provider and a matching instruction,
\* in which every session operation succeeded, ends completed, with all five
\* actions performed.
Orig_C3 ==
    (/\ ValidInputs
     /\ runs > 0
     /\ pc = "idle"
     /\ \A k \in DOMAIN log : log[k].out = "ok") =>
        /\ status = "completed"
        /\ \A i \in 1..5 : \E k \in DOMAIN log :
               log[k].idx = i /\ log[k].op \in {"click", "fill"}

Orig_C7 ==
    (ret.kind # "none" /\ Match(instruction).matched) =>
        /\ fields[2] = Verbatim(instruction)[2]
        /\ fields[3] = Verbatim(instruction)[3]
        /\ Lower(fields[1]) = Lower(Verbatim(instruction)[1])

\* C8: an instruction that does not match the pattern in its entirety makes
\* mock_llm_reason fail with the invalid-instruction error, no field being
\* parsed and no plan returned.
Orig_C8 ==
    (ret.kind # "none" /\ ~ FullMatch(instruction)) =>
        /\ ret = Raise(InvalidInstruction)
        /\ fields = <<>>

\* C9: when execute fails with the invalid-instruction error, no session
\* operation has been invoked and no browser was launched.
Orig_C9 ==
    (runs > 0 /\ exc = InvalidInstruction) =>
        /\ log = <<>>
        /\ browser = "None"

\* C10 as stated: for a provider outside the configured set the construction
\* fails with the unsupported-provider error, every call of mock_llm_reason
\* fails with that same error, and no session operation has occurred.
Orig_C10 ==
    provider \notin ConfiguredProviders =>
        /\ pc \in {"start", "ctor_raised"}
        /\ pc = "ctor_raised" => exc = UnsupportedProvider
        /\ log = <<>> /\ browser = "None" /\ page = "None" /\ runs = 0
        /\ ret.kind # "none" => ret = Raise(UnsupportedProvider)

\* C10, amended: for a provider outside the configured set the construction
\* fails with the unsupported-provider error and no session operation has
\* occurred; mock_llm_reason fails with the unsupported-provider error when
\* the instruction matches the pattern, and with the invalid-instruction
\* error when it does not.
Thm_C10 ==
    provider \notin ConfiguredProviders =>
        /\ pc \in {"start", "ctor_raised"}
        /\ pc = "ctor_raised" => exc = UnsupportedProvider
        /\ log = <<>> /\ browser = "None" /\ page = "None" /\ runs = 0
        /\ ret.kind # "none" =>
               ret = Raise(IF Match(instruction).matched
                           THEN UnsupportedProvider ELSE InvalidInstruction)

\* both the construction and a call of mock_llm_reason have failed with the
\* unsupported-provider error
W_C10 ==
    /\ provider \notin ConfiguredProviders
    /\ pc = "ctor_raised"
    /\ exc = UnsupportedProvider
    /\ ret = Raise(UnsupportedProvider)

\* the log entries of the screenshots of the run
Captures == {k \in DOMAIN log : log[k].op = "screenshot"}

Thm_C20 ==
    /\ DOMAIN Urls = DOMAIN LabelTable
    /\ runs > 0 => exc # UnsupportedProvider

\* a run of a constructed agent has called mock_llm_reason with a matching
\* instruction, the provider lookup being passed
W_C20 ==
    /\ runs > 0
    /\ pc = "idle"
    /\ Match(instruction).matched
    /\ exc = KeyError

\* a screenshot file that is written again still shows the same plan position
TagNamesIndex ==
    \A q \in DOMAIN shots \cap DOMAIN shots' : shots'[q].idx = shots[q].idx

\* a run that ended on a timeout made exactly one screenshot call, for the
\* action that timed out and under a name that contains the provider
OneCapture ==
    (pc = "idle" /\ \E k \in Failures : log[k].out = TimeoutError) =>
        /\ Cardinality(Captures) = 1
        /\ \A j \in Captures :
               /\ provider \in Range(log[j].arg)
               /\ \E k \in Failures : k < j /\ log[k].idx = log[j].idx

ActionCalls ==
    {k \in DOMAIN log :
        log[k].op \in {"get_by_role", "get_by_label", "wait_for", "click",
                       "fill"}}

====
